---------------------------- MODULE Spec2Model ----------------------------
(***************************************************************************)
(* The reminder lifecycle of pumpkin-reminder: the ReminderItem table      *)
(* (src/reminder/database.py), the 30 second dispatcher task               *)
(* Reminder.reminder with the delivery coroutine Reminder._remind, and the *)
(* reschedule / delete commands with their reaction confirmation           *)
(* (src/reminder/module.py).                                               *)
(*                                                                         *)
(* Time is counted in ticks of 30 seconds.  All coroutines run on one      *)
(* event loop, so a handler is atomic between two awaits that reach the    *)
(* network; every action below is one such segment.                        *)
(*                                                                         *)
(* Calls into code outside the repository are nondeterministic over the    *)
(* outcomes the callers distinguish: fetch_user finds the user, raises     *)
(* NotFound or raises otherwise; send returns or raises HTTPException /    *)
(* Forbidden; the loggers return.  _get_embed reads the global name utx,   *)
(* which the module never binds, so it raises NameError unless the host    *)
(* binds the name: both outcomes are kept.  An exception that leaves       *)
(* Reminder.reminder ends the tasks.loop task.  The cog is taken to stay   *)
(* loaded: cog_unload and a restart of the process are not modelled.       *)
(* idx values come from a sequence and are not used again after a delete.  *)
(***************************************************************************)
EXTENDS Integers, Sequences, FiniteSets, TLC

\* ------------------------------------------------------------- bounds
MaxTime == 2
MaxRecords == 2
MaxFlows == 1
\* commands in progress at once where no dispatcher task runs (CommandSpec)
MaxCommands == 2

\* ------------------------------------------------- program constants
\* tasks.loop(seconds=30): one tick between two iterations
LoopInterval == 1
\* timedelta(seconds=30): the horizon lies one tick ahead of now
HorizonDelta == 1
\* wait_for("reaction_add", timeout=60): two ticks
ConfirmTimeout == 2

\* ------------------------------------------------------------ domains
\* dates a user can type: past, present and up to one horizon past MaxTime
Dates == 0..(MaxTime + 1)
Users == {1, 2}
\* the guild the modelled reminders are created in, and a second guild
\* from which commands can be issued
HomeGuild == 1
Guilds == {1, 2}
\* the member issuing remind, and the members it names to be reminded
Author == 1
Reminded == {2}
RecordIds == 1..MaxRecords
FlowIds == 1..MaxFlows
CommandIds == 1..MaxCommands
\* every command slot of the model
AllFlowIds == FlowIds \cup CommandIds
\* the messages a reaction can be added to: the message of the command in
\* slot f is f, 0 is any other message
Messages == AllFlowIds \cup {0}
\* the emoji of a reaction
Emoji == {"confirm", "storno", "other"}

None == -1
NoStatus == "None"

\* class ReminderStatus
WAITING == "WAITING"
REMINDED == "REMINDED"
FAILED == "FAILED"
ReminderStatus == {WAITING, REMINDED, FAILED}

VARIABLES
    now,        \* datetime.now(), in ticks
    store,      \* table reminder_reminder_reminderitem: idx -> row
    nextIdx,    \* the autoincrement sequence of column idx
    loopPc,     \* where the dispatcher task stands
    items,      \* the rest of the query result the task iterates over
    item,       \* the idx of the row _remind is working on (0: none)
    nextRun,    \* the tick at which tasks.loop runs the next iteration
    elig,       \* history: rows WAITING with remind_date <= horizon at the last query
    att,        \* history: per idx, what delivery did with it
    flows       \* the reschedule / delete commands in progress

vars == <<now, store, nextIdx, loopPc, items, item, nextRun, elig, att, flows>>

loopVars == <<loopPc, items, item, nextRun, elig>>

\* ---------------------------------------------------------- the table

\* ReminderItem(...): the row add() builds
ReminderItem(guild_id, author_id, remind_id, origin_date, remind_date) ==
    [guild_id |-> guild_id, author_id |-> author_id, remind_id |-> remind_id,
     permalink |-> "url", message |-> "text",
     origin_date |-> origin_date, remind_date |-> remind_date,
     status |-> WAITING]

\* ReminderItem.add rejects the date: raise ValueError
add_rejects(remind_date, origin_date) ==
    remind_date < origin_date

\* get_all without its filter on status
get_all_any_status(guild_id, idx, remind_id, status, min_origin_date, max_origin_date, min_remind_date, max_remind_date) ==
    {i \in DOMAIN store :
        /\ guild_id # None => store[i].guild_id = guild_id
        /\ idx # None => i = idx
        /\ remind_id # None => store[i].remind_id = remind_id
        /\ min_origin_date # None => store[i].origin_date > min_origin_date
        /\ max_origin_date # None => store[i].origin_date < max_origin_date
        /\ min_remind_date # None => store[i].remind_date > min_remind_date
        /\ max_remind_date # None => store[i].remind_date < max_remind_date}

\* ReminderItem.get_all: the idx of the rows that pass the given filters
get_all(guild_id, idx, remind_id, status, min_origin_date, max_origin_date, min_remind_date, max_remind_date) ==
    {i \in DOMAIN store :
        /\ guild_id # None => store[i].guild_id = guild_id
        /\ idx # None => i = idx
        /\ remind_id # None => store[i].remind_id = remind_id
        /\ status # NoStatus => store[i].status = status
        /\ min_origin_date # None => store[i].origin_date > min_origin_date
        /\ max_origin_date # None => store[i].origin_date < max_origin_date
        /\ min_remind_date # None => store[i].remind_date > min_remind_date
        /\ max_remind_date # None => store[i].remind_date < max_remind_date}

\* query.order_by(remind_date.desc()).all(): the orders the database may
\* return the rows S in (rows with equal remind_date come in any order)
order_by_remind_date_desc(S) ==
    {s \in [1..Cardinality(S) -> S] :
        /\ \A i, j \in 1..Cardinality(S) : i # j => s[i] # s[j]
        /\ \A i, j \in 1..Cardinality(S) :
              i < j => store[s[i]].remind_date >= store[s[j]].remind_date}

\* save_status writing the row back where it has been deleted
save_status_upsert(id, status) ==
    IF id \in DOMAIN store
    THEN [store EXCEPT ![id].status = status]
    ELSE store @@ (id :> [ReminderItem(HomeGuild, Author, Author, 0, 0)
                             EXCEPT !.status = status])

\* item.status = status; item.save(): one commit.  A row deleted in the
\* meantime is a detached object: the commit writes nothing.
save_status(id, status) ==
    IF id \in DOMAIN store
    THEN [store EXCEPT ![id].status = status]
    ELSE store

\* ReminderItem.reschedule that also puts the row back to WAITING
ReminderItem_reschedule_reset(id, new_date) ==
    IF id \in DOMAIN store
    THEN [store EXCEPT ![id].remind_date = new_date, ![id].status = WAITING]
    ELSE store

\* ReminderItem.reschedule: self.remind_date = new_date; commit
ReminderItem_reschedule(id, new_date) ==
    IF id \in DOMAIN store
    THEN [store EXCEPT ![id].remind_date = new_date]
    ELSE store

\* ReminderItem.delete: session.delete(self); commit
ReminderItem_delete(id) ==
    [i \in DOMAIN store \ {id} |-> store[i]]

\* ------------------------------------------------------------ history
\* n: entries into _remind; sends: calls of send; path: the way _remind took;
\* fin: _remind returned or raised; later: an iteration of the task began
\* after _remind ended
NoAttempt == [n |-> 0, sends |-> 0, path |-> "none", fin |-> FALSE,
              later |-> FALSE]

Bump(x) == IF x < 2 THEN x + 1 ELSE x

\* a command that is not running
\* author is ctx.author.id; by and on are the user and the message of the
\* reaction wait_for returned; sent is the text the command has sent to the
\* channel after its checks or after wait_for.
\* mark is history: "terminal" once the command has rescheduled a REMINDED or
\* FAILED row, "queried" once the task has queried the table after that,
\* "snapshot" once the command has deleted a row the running iteration of the
\* task still holds, "gone" once the command has confirmed on a deleted row
IdleFlow == [pc |-> "idle", kind |-> "none", idx |-> 0, date |-> 0,
             deadline |-> 0, result |-> "none", mark |-> "none",
             author |-> 0, by |-> 0, on |-> 0, sent |-> "none"]

Init ==
    /\ now = 0
    /\ store = <<>>
    /\ nextIdx = 1
    /\ loopPc = "sleep"
    /\ items = <<>>
    /\ item = 0
    /\ nextRun = 0
    /\ elig = {}
    /\ att = [i \in RecordIds |-> NoAttempt]
    /\ flows = [f \in AllFlowIds |-> IdleFlow]

\* the clock
Tick ==
    /\ now < MaxTime
    /\ now' = now + 1
    /\ UNCHANGED <<store, nextIdx, loopVars, att, flows>>

\* remindme / remind: ReminderItem.add with origin_date = datetime.now().
\* A rejected date raises ValueError out of the command: nothing is stored.
add(remind_id, remind_date) ==
    /\ nextIdx <= MaxRecords
    /\ IF add_rejects(remind_date, now)
       THEN UNCHANGED <<store, nextIdx>>
       ELSE /\ store' = store @@ (nextIdx :>
                  ReminderItem(HomeGuild, Author, remind_id, now, remind_date))
            /\ nextIdx' = nextIdx + 1
    /\ UNCHANGED <<now, loopVars, att, flows>>

\* ------------------------------------------------- the dispatcher task

\* history: _remind(id) is entered
Begin(a, id) ==
    [a EXCEPT ![id].n = Bump(@), ![id].fin = FALSE]

\* history: an iteration begins
NewIteration(a) ==
    [i \in RecordIds |-> [a[i] EXCEPT !.later = a[i].fin]]

\* history: the query of an iteration runs after a command rescheduled a
\* REMINDED or FAILED row, while the command is still deleting its message
Queried(fl) ==
    IF fl.mark = "terminal" THEN [fl EXCEPT !.mark = "queried"] ELSE fl

\* for item in items: await self._remind(item) -- the step to the next row,
\* or the end of the iteration; a is the history so far
next_item(a) ==
    IF items = <<>>
    THEN /\ loopPc' = "sleep"
         /\ item' = 0
         /\ items' = items
         /\ att' = a
    ELSE /\ loopPc' = "get_member"
         /\ item' = Head(items)
         /\ items' = Tail(items)
         /\ att' = Begin(a, Head(items))

\* an exception leaves _remind and reminder(): the for loop is left with
\* the rest of items unvisited, tasks.Loop calls its error handler and
\* re-raises, the task ends and no later iteration runs
escape(a) ==
    /\ loopPc' = "dead"
    /\ item' = 0
    /\ items' = items
    /\ att' = a

\* Reminder.reminder, one iteration: the query, and the entry into _remind
\* for the first row
reminder ==
    /\ loopPc = "sleep"
    /\ now >= nextRun
    /\ LET max_remind_time == now + HorizonDelta
           found == get_all(None, None, None, WAITING, None, None, None,
                            max_remind_time)
       IN  \E s \in order_by_remind_date_desc(found) :
             /\ nextRun' = now + LoopInterval
             /\ elig' = {i \in DOMAIN store :
                            /\ store[i].status = WAITING
                            /\ store[i].remind_date <= max_remind_time}
             /\ IF s = <<>>
                THEN /\ loopPc' = "sleep"
                     /\ item' = 0
                     /\ items' = <<>>
                     /\ att' = NewIteration(att)
                ELSE /\ loopPc' = "get_member"
                     /\ item' = s[1]
                     /\ items' = Tail(s)
                     /\ att' = Begin(NewIteration(att), s[1])
    /\ flows' = [f \in AllFlowIds |-> Queried(flows[f])]
    /\ UNCHANGED <<now, store, nextIdx>>

\* remind_member_none without the write of FAILED
remind_member_none_unsaved ==
    /\ store' = store
    /\ loopPc' = "warn_unreachable"
    /\ att' = [att EXCEPT ![item].path = "unresolved"]
    /\ UNCHANGED <<item, items>>

\* _remind, reminded_user is None: FAILED is saved, then the warning is awaited
remind_member_none ==
    /\ store' = save_status(item, FAILED)
    /\ loopPc' = "warn_unreachable"
    /\ att' = [att EXCEPT ![item].path = "unresolved"]
    /\ UNCHANGED <<item, items>>

\* _remind up to the end of _get_member: the member is in the guild cache or
\* fetch_user finds the user ("member"), fetch_user raises NotFound ("none"),
\* or get_guild returns None / fetch_user raises another HTTPException ("raise")
remind_get_member(outcome) ==
    /\ loopPc = "get_member"
    /\ CASE outcome = "member" ->
              /\ loopPc' = "get_embed"
              /\ UNCHANGED <<store, item, items, att>>
         [] outcome = "none" -> remind_member_none
         [] outcome = "raise" ->
              /\ escape([att EXCEPT ![item].path = "resolve_error",
                                    ![item].fin = TRUE])
              /\ store' = store
    /\ UNCHANGED <<now, nextIdx, nextRun, elig, flows>>

\* _remind, embed = await self._get_embed(utx, item).  The name utx is bound
\* nowhere in the module: unless the host binds it, evaluating it raises
\* NameError; _get_embed also awaits _get_member, which can raise.  With the
\* embed built, reminded_user.send is called and awaited.
remind_get_embed(outcome) ==
    /\ loopPc = "get_embed"
    /\ CASE outcome = "ok" ->
              /\ loopPc' = "send"
              /\ att' = [att EXCEPT ![item].sends = Bump(@)]
              /\ UNCHANGED <<item, items>>
         [] outcome = "raise" ->
              escape([att EXCEPT ![item].path = "embed_error",
                                 ![item].fin = TRUE])
    /\ UNCHANGED <<now, store, nextIdx, nextRun, elig, flows>>

\* remind_sent removing the delivered row instead of keeping it as REMINDED
remind_sent_removed ==
    /\ store' = ReminderItem_delete(item)
    /\ loopPc' = "info"
    /\ att' = [att EXCEPT ![item].path = "sent"]
    /\ UNCHANGED <<item, items>>

\* remind_sent without the write of REMINDED
remind_sent_unsaved ==
    /\ store' = store
    /\ loopPc' = "info"
    /\ att' = [att EXCEPT ![item].path = "sent"]
    /\ UNCHANGED <<item, items>>

\* _remind, the send returned: REMINDED is saved, then guild_log.info is awaited
remind_sent ==
    /\ store' = save_status(item, REMINDED)
    /\ loopPc' = "info"
    /\ att' = [att EXCEPT ![item].path = "sent"]
    /\ UNCHANGED <<item, items>>

\* _remind, the send raised HTTPException or Forbidden: FAILED is saved, then
\* bot_log.warning is awaited inside the except block
remind_send_failed ==
    /\ store' = save_status(item, FAILED)
    /\ loopPc' = "warn_blocked"
    /\ att' = [att EXCEPT ![item].path = "send_failed"]
    /\ UNCHANGED <<item, items>>

\* _remind, await reminded_user.send(embed=embed) completes
remind_send(outcome) ==
    /\ loopPc = "send"
    /\ CASE outcome = "ok" -> remind_sent
         [] outcome = "raise" -> remind_send_failed
    /\ UNCHANGED <<now, nextIdx, nextRun, elig, flows>>

\* _remind, the warning of the unreachable member is logged: return
remind_warn_unreachable ==
    /\ loopPc = "warn_unreachable"
    /\ next_item([att EXCEPT ![item].fin = TRUE])
    /\ UNCHANGED <<now, store, nextIdx, nextRun, elig, flows>>

\* _remind, the warning of the failed send is logged: the except block ends
\* without a return, so the lines after the try statement run
remind_warn_blocked ==
    /\ loopPc = "warn_blocked"
    /\ store' = save_status(item, REMINDED)
    /\ loopPc' = "info"
    /\ UNCHANGED <<now, nextIdx, item, items, nextRun, elig, att, flows>>

\* _remind, guild_log.info is logged: return
remind_info ==
    /\ loopPc = "info"
    /\ next_item([att EXCEPT ![item].fin = TRUE])
    /\ UNCHANGED <<now, store, nextIdx, nextRun, elig, flows>>

\* ------------------------------------- the reschedule / delete commands

\* what the command has sent to the channel once the try statement around
\* wait_for is over: the time-out text is sent by await ctx.send(...); after
\* a reaction ctx.send(...) is called without await, a coroutine that never
\* runs, and the delete command has no text for a done deletion
said(result) ==
    IF result = "timeout" THEN "timeout" ELSE "none"

\* the command fl is left with deleting its message, after the given result
Cleanup(fl, result) ==
    [IdleFlow EXCEPT !.pc = "cleanup", !.kind = fl.kind, !.idx = fl.idx,
                     !.result = result, !.by = fl.by, !.on = fl.on,
                     !.sent = said(result)]

\* the command awaits ctx.send of the text that turns the request down
Reply(kind, idx, author, text) ==
    [IdleFlow EXCEPT !.pc = "reply", !.kind = kind, !.idx = idx,
                     !.author = author, !.sent = text]

\* an exception has left the command: it is with the error handler of the
\* command framework
Raised(kind, result) ==
    [IdleFlow EXCEPT !.pc = "raised", !.kind = kind, !.result = result]

\* The command got past its checks.  embed = await self._get_embed(ctx,
\* query) reads the name utx, bound nowhere in the module (NameError unless
\* the host binds it), and it, ctx.send and add_reaction can raise: the
\* command then ends by the exception ("raise").  Otherwise ("ok") the
\* message with the two reactions is out and wait_for starts.
confirm_present(f, kind, idx, user, date, outcome) ==
    CASE outcome = "ok" ->
           flows' = [flows EXCEPT ![f] =
                       [IdleFlow EXCEPT !.pc = "wait", !.kind = kind,
                                        !.idx = idx, !.date = date,
                                        !.deadline = now + ConfirmTimeout,
                                        !.author = user]]
      [] outcome = "raise" ->
           UNCHANGED flows

\* reschedule without the comparison of query.remind_id with ctx.author.id
reschedule_any_author(f, guild, idx, user, date, outcome) ==
    /\ flows[f].pc = "idle"
    /\ LET query == get_all(guild, idx, None, NoStatus, None, None, None, None)
       IN  IF query = {}
           THEN flows' = [flows EXCEPT ![f] = Raised("reschedule", "IndexError")]
           ELSE IF date < now
           THEN flows' = [flows EXCEPT ![f] = Reply("reschedule", 0, 0, "past")]
           ELSE confirm_present(f, "reschedule", idx, user, date, outcome)
    /\ UNCHANGED <<now, store, nextIdx, loopVars, att>>

\* reminders reschedule, up to wait_for: the row is looked up (get_all
\* returns a list, never None, and query[0] of an empty list raises
\* IndexError), the author of the command must be the reminded user, the
\* date must not lie in the past
reschedule(f, guild, idx, user, date, outcome) ==
    /\ flows[f].pc = "idle"
    /\ LET query == get_all(guild, idx, None, NoStatus, None, None, None, None)
       IN  IF query = {}
           THEN flows' = [flows EXCEPT ![f] = Raised("reschedule", "IndexError")]
           ELSE IF store[idx].remind_id # user
           THEN flows' = [flows EXCEPT ![f] =
                            Reply("reschedule", idx, user, "forbidden")]
           ELSE IF date < now
           THEN flows' = [flows EXCEPT ![f] = Reply("reschedule", 0, 0, "past")]
           ELSE confirm_present(f, "reschedule", idx, user, date, outcome)
    /\ UNCHANGED <<now, store, nextIdx, loopVars, att>>

\* reminders delete, up to wait_for
delete(f, guild, idx, user, outcome) ==
    /\ flows[f].pc = "idle"
    /\ LET query == get_all(guild, idx, None, NoStatus, None, None, None, None)
       IN  IF query = {}
           THEN flows' = [flows EXCEPT ![f] = Raised("delete", "IndexError")]
           ELSE IF store[idx].remind_id # user
           THEN flows' = [flows EXCEPT ![f] =
                            Reply("delete", idx, user, "forbidden")]
           ELSE confirm_present(f, "delete", idx, user, 0, outcome)
    /\ UNCHANGED <<now, store, nextIdx, loopVars, att>>

\* await ctx.send(...) of the text that turns the request down; return
command_reply(f) ==
    /\ flows[f].pc = "reply"
    /\ flows' = [flows EXCEPT ![f] = IdleFlow]
    /\ UNCHANGED <<now, store, nextIdx, loopVars, att>>

\* the error handler of the command framework is done with the exception
command_error(f) ==
    /\ flows[f].pc = "raised"
    /\ flows' = [flows EXCEPT ![f] = IdleFlow]
    /\ UNCHANGED <<now, store, nextIdx, loopVars, att>>

\* query.remind_id as the command reads it: the column of the row, or, with
\* the row deleted, the value the object was loaded with, which the command
\* found equal to ctx.author.id
query_remind_id(f) ==
    IF flows[f].idx \in DOMAIN store
    THEN store[flows[f].idx].remind_id
    ELSE flows[f].author

\* check_id without the comparison of the user with query.remind_id
check_id_any_user(f, message, emoji, user) ==
    /\ message = f
    /\ emoji \in {"confirm", "storno"}

\* check_id of the command in slot f, for a reaction_add event
check_id(f, message, emoji, user) ==
    /\ message = f
    /\ emoji \in {"confirm", "storno"}
    /\ user = query_remind_id(f)

\* A reaction_add event reaches wait_for before the time-out.  An event that
\* fails check_id leaves wait_for waiting.  On the confirmation
\* bot_log.debug is awaited before the change; on the storno the command
\* goes on to delete its message.
confirm_react(f, message, emoji, user) ==
    /\ flows[f].pc = "wait"
    /\ now <= flows[f].deadline
    /\ IF check_id(f, message, emoji, user)
       THEN flows' = [flows EXCEPT ![f] =
                IF emoji = "confirm"
                THEN [@ EXCEPT !.pc = "log", !.deadline = 0,
                               !.by = user, !.on = message]
                ELSE Cleanup([@ EXCEPT !.by = user, !.on = message], "storno")]
       ELSE UNCHANGED flows
    /\ UNCHANGED <<now, store, nextIdx, loopVars, att>>

\* wait_for raises asyncio.TimeoutError: the time-out is reported
confirm_timeout(f) ==
    /\ flows[f].pc = "wait"
    /\ now >= flows[f].deadline
    /\ flows' = [flows EXCEPT ![f] = Cleanup(@, "timeout")]
    /\ UNCHANGED <<now, store, nextIdx, loopVars, att>>

\* the running iteration of the task holds row idx and has not yet written
\* its status
held_unwritten(idx) ==
    \/ idx = item /\ loopPc \in {"get_member", "get_embed", "send"}
    \/ \E k \in 1..Len(items) : items[k] = idx

\* after bot_log.debug: query.reschedule(date) or query.delete(), with no
\* handler around either.  On a row that another command has deleted the
\* object is detached: reschedule assigns and commits nothing; delete hands
\* the object to session.delete, which either raises out of the command
\* ("raise") or ends in a DELETE that matches no row ("ok").
confirm_commit(f, outcome) ==
    /\ flows[f].pc = "log"
    /\ LET idx == flows[f].idx
           gone == idx \notin DOMAIN store
       IN  CASE flows[f].kind = "reschedule" ->
                  /\ outcome = "ok"
                  /\ store' = ReminderItem_reschedule(idx, flows[f].date)
                  /\ flows' = [flows EXCEPT ![f] =
                       [Cleanup(@, "done") EXCEPT !.mark =
                          IF gone THEN "gone"
                          ELSE IF store[idx].status # WAITING
                          THEN "terminal" ELSE "none"]]
             [] flows[f].kind = "delete" /\ outcome = "ok" ->
                  /\ store' = ReminderItem_delete(idx)
                  /\ flows' = [flows EXCEPT ![f] =
                       [Cleanup(@, "done") EXCEPT !.mark =
                          IF gone THEN "gone"
                          ELSE IF held_unwritten(idx)
                          THEN "snapshot" ELSE "none"]]
             [] flows[f].kind = "delete" /\ outcome = "raise" ->
                  /\ gone
                  /\ store' = store
                  /\ flows' = [flows EXCEPT ![f] =
                       [Raised("delete", "InvalidRequestError")
                          EXCEPT !.mark = "gone"]]
    /\ UNCHANGED <<now, nextIdx, loopVars, att>>

\* await message.delete(), NotFound and Forbidden swallowed: the command ends
confirm_cleanup(f) ==
    /\ flows[f].pc = "cleanup"
    /\ flows' = [flows EXCEPT ![f] = IdleFlow]
    /\ UNCHANGED <<now, store, nextIdx, loopVars, att>>

\* the steps of the command in slot f
command(f) ==
    \/ \E g \in Guilds, i \in RecordIds, u \in Users, d \in Dates,
          o \in {"ok", "raise"} : reschedule(f, g, i, u, d, o)
    \/ \E g \in Guilds, i \in RecordIds, u \in Users,
          o \in {"ok", "raise"} : delete(f, g, i, u, o)
    \/ command_reply(f)
    \/ command_error(f)
    \/ \E m \in Messages, e \in Emoji, u \in Users : confirm_react(f, m, e, u)
    \/ confirm_timeout(f)
    \/ \E o \in {"ok", "raise"} : confirm_commit(f, o)
    \/ confirm_cleanup(f)

Next ==
    \/ Tick
    \/ \E u \in Reminded, d \in Dates : add(u, d)
    \/ reminder
    \/ \E o \in {"member", "none", "raise"} : remind_get_member(o)
    \/ \E o \in {"ok", "raise"} : remind_get_embed(o)
    \/ \E o \in {"ok", "raise"} : remind_send(o)
    \/ remind_warn_unreachable
    \/ remind_warn_blocked
    \/ remind_info
    \/ \E f \in FlowIds : command(f)

\* the task with remind / remindme alone: no command reschedules or deletes
NextDelivery ==
    \/ Tick
    \/ \E u \in Reminded, d \in Dates : add(u, d)
    \/ reminder
    \/ \E o \in {"member", "none", "raise"} : remind_get_member(o)
    \/ \E o \in {"ok", "raise"} : remind_get_embed(o)
    \/ \E o \in {"ok", "raise"} : remind_send(o)
    \/ remind_warn_unreachable
    \/ remind_warn_blocked
    \/ remind_info

\* a step of the dispatcher task
LoopStep ==
    \/ reminder
    \/ \E o \in {"member", "none", "raise"} : remind_get_member(o)
    \/ \E o \in {"ok", "raise"} : remind_get_embed(o)
    \/ \E o \in {"ok", "raise"} : remind_send(o)
    \/ remind_warn_unreachable
    \/ remind_warn_blocked
    \/ remind_info

\* remind / remindme and the commands alone, several of them at once: the
\* dispatcher task does not run
NextCommands ==
    \/ Tick
    \/ \E u \in Reminded, d \in Dates : add(u, d)
    \/ \E f \in CommandIds : command(f)

Spec == Init /\ [][Next]_vars

CommandSpec == Init /\ [][NextCommands]_vars

\* The event loop keeps running the task while it is alive, every awaited
\* call of the task completes, and time passes.
LiveSpec == Init /\ [][NextDelivery]_vars /\ WF_vars(Tick) /\ WF_vars(LoopStep)

\* ------------------------------------------------------------- claims
Terminal == {REMINDED, FAILED}

\* C1: once _remind has finished on a record whose send raised HTTPException
\* or Forbidden, the persisted status of the record is FAILED.
C1_FailedSendEndsFailed ==
    \A i \in DOMAIN store :
        (att[i].path = "send_failed" /\ att[i].fin) => store[i].status = FAILED

\* C2: when an iteration is over, every record that was WAITING with
\* remind_date <= horizon at its query has been handed to _remind and, if it
\* is still stored, is REMINDED or FAILED.
C2_DueWithinHorizonIsHandled ==
    loopPc \in {"sleep", "dead"} =>
        \A i \in elig :
            /\ att[i].n >= 1
            /\ i \in DOMAIN store => store[i].status \in Terminal

\* C3: every finished _remind, returned or raised, leaves its record
\* REMINDED or FAILED.
C3_FinishedAttemptIsTerminal ==
    \A i \in DOMAIN store : att[i].fin => store[i].status \in Terminal

\* C4: a record whose reminded user could not be resolved is FAILED from the
\* moment _remind decides so, _remind returns without raising (a dead task
\* is another record's doing), and the record is never handed to _remind
\* again.
C4_UnresolvedFailsOnce ==
    \A i \in RecordIds :
        att[i].path = "unresolved" =>
            /\ i \in DOMAIN store => store[i].status = FAILED
            /\ att[i].n = 1
            /\ att[i].sends = 0
            /\ (att[i].fin /\ loopPc = "dead") =>
                   \E j \in RecordIds \ {i} :
                       att[j].path \in {"resolve_error", "embed_error"}

\* C4 witness: an unresolved record is FAILED, _remind has returned, a later
\* iteration has begun and ended, and the record is still within the horizon.
C4_Witness ==
    \E i \in DOMAIN store :
        /\ att[i].path = "unresolved"
        /\ att[i].fin
        /\ att[i].later
        /\ store[i].status = FAILED
        /\ store[i].remind_date < now + HorizonDelta
        /\ loopPc = "sleep"

\* C5: no failure inside _remind stops the task, and none keeps the
\* remaining records of the query result from being handed to _remind.
C5_FailureStopsNothing ==
    /\ loopPc # "dead"
    /\ loopPc \in {"sleep", "dead"} => items = <<>>

\* C6: the persisted status of a record changes only from WAITING, and only
\* to REMINDED or FAILED.
C6_TerminalStatusIsFinal ==
    [][\A i \in DOMAIN store \cap DOMAIN store' :
          store'[i].status # store[i].status =>
              (store[i].status = WAITING /\ store'[i].status \in Terminal)]_vars

\* C7: send is called at most once per record idx.
C7_AtMostOneSend ==
    \A i \in RecordIds : att[i].sends <= 1

\* C7 witness: a record was sent once, and a later iteration has begun while
\* the record is still stored and within the horizon.
C7_Witness ==
    \E i \in DOMAIN store :
        /\ att[i].sends = 1
        /\ att[i].fin
        /\ att[i].later
        /\ store[i].remind_date < now + HorizonDelta

\* C8: a record that enters _remind is WAITING in the table (or deleted
\* since the query), never REMINDED or FAILED.
C8_OnlyWaitingIsHanded ==
    loopPc = "get_member" =>
        (item \in DOMAIN store => store[item].status = WAITING)

\* C8 witness: a REMINDED or FAILED record was rescheduled, the commit came
\* before the query of the running iteration, the new date lies within that
\* iteration's horizon, and the iteration hands another record to _remind.
C8_Witness ==
    \E f \in FlowIds :
        /\ flows[f].kind = "reschedule"
        /\ flows[f].result = "done"
        /\ flows[f].mark = "queried"
        /\ flows[f].idx \in DOMAIN store
        /\ store[flows[f].idx].status \in Terminal
        /\ store[flows[f].idx].remind_date < (nextRun - LoopInterval) + HorizonDelta
        /\ loopPc = "get_member"
        /\ item # flows[f].idx

\* C9: a record that is WAITING while the task sleeps, with an iteration still
\* to come within the modelled time whose horizon covers it, is eventually
\* REMINDED or FAILED (no command reschedules or deletes under LiveSpec).
C9_EventuallyTerminal ==
    \A i \in RecordIds :
        [](( /\ i \in DOMAIN store
             /\ store[i].status = WAITING
             /\ loopPc = "sleep"
             /\ nextRun <= MaxTime
             /\ store[i].remind_date < nextRun + HorizonDelta )
           => <>(i \in DOMAIN store /\ store[i].status \in Terminal))

\* C10: a record that add stores is WAITING, has a fresh idx, and has
\* remind_date strictly later than origin_date, the instant of the call.
C10_AddStoresFutureOnly ==
    [][\A i \in DOMAIN store' \ DOMAIN store :
          /\ store'[i].status = WAITING
          /\ i >= nextIdx
          /\ store'[i].origin_date = now
          /\ store'[i].remind_date > store'[i].origin_date]_vars

\* C11: a reschedule writes remind_date only on a record whose status is
\* WAITING: a record that is REMINDED or FAILED keeps its remind_date.
C11_RescheduleOnlyWhileWaiting ==
    [][\A i \in DOMAIN store \cap DOMAIN store' :
          store'[i].remind_date # store[i].remind_date =>
              store[i].status = WAITING]_vars

\* C12: whenever a reschedule writes remind_date, the value written is
\* strictly later than the clock at the moment of the write.
C12_RescheduledDateIsFuture ==
    [][\A i \in DOMAIN store \cap DOMAIN store' :
          store'[i].remind_date # store[i].remind_date =>
              store'[i].remind_date > now]_vars

\* C13: a command changes remind_date of a row or removes a row only after
\* wait_for returned the confirmation, and wait_for returns only a reaction
\* of the reminded user on the command's own message, before the time-out.
\* A step that takes a command out of wait_for (the storno, the time-out)
\* changes no row, and nothing but the time-out or such a reaction takes a
\* command out of wait_for.
C13_OnlyOwnConfirmationMutates ==
    [][/\ \A i \in DOMAIN store :
             (i \notin DOMAIN store' \/ store'[i].remind_date # store[i].remind_date)
                 => \E f \in AllFlowIds :
                        /\ flows[f].pc = "log"
                        /\ flows[f].idx = i
                        /\ flows[f].by = store[i].remind_id
                        /\ flows[f].on = f
                        /\ flows'[f].pc # "log"
       /\ \A f \in AllFlowIds :
             (flows[f].pc = "wait" /\ flows'[f].pc # "wait") =>
                 /\ store' = store
                 /\ \/ /\ flows'[f].pc = "cleanup"
                       /\ flows'[f].result = "timeout"
                       /\ now >= flows[f].deadline
                    \/ /\ \/ flows'[f].pc = "log"
                          \/ flows'[f].pc = "cleanup" /\ flows'[f].result = "storno"
                       /\ flows'[f].by = query_remind_id(f)
                       /\ flows'[f].on = f
                       /\ now <= flows[f].deadline]_vars

\* C13 witness: two commands had their messages out on the same row; the
\* reminded user confirmed on the message of one of them, whose reschedule
\* is done, and the other command is still in wait_for.
C13_Witness ==
    \E f, g \in CommandIds :
        /\ f # g
        /\ flows[f].pc = "cleanup"
        /\ flows[f].kind = "reschedule"
        /\ flows[f].result = "done"
        /\ flows[f].on = f
        /\ flows[f].idx \in DOMAIN store
        /\ flows[f].by = store[flows[f].idx].remind_id
        /\ store[flows[f].idx].remind_date # store[flows[f].idx].origin_date
        /\ flows[g].pc = "wait"
        /\ flows[g].idx = flows[f].idx

\* C14: a reschedule or delete command issued by a user other than the
\* reminded user of the row gets no message with reactions out, and the
\* step that handles the request changes no row.
C14_OnlyRemindedUserGetsProposal ==
    [][\A f \in AllFlowIds :
          (flows[f].pc = "idle" /\ flows'[f].pc # "idle") =>
              /\ store' = store
              /\ flows'[f].pc = "wait" =>
                     /\ flows'[f].idx \in DOMAIN store
                     /\ flows'[f].author = store[flows'[f].idx].remind_id]_vars

\* C14 witness: the author of a reminder for another user asked to
\* reschedule or delete it and is being told that it is not theirs.
C14_Witness ==
    \E f \in FlowIds :
        /\ flows[f].pc = "reply"
        /\ flows[f].sent = "forbidden"
        /\ flows[f].idx \in DOMAIN store
        /\ flows[f].author = store[flows[f].idx].author_id
        /\ flows[f].author # store[flows[f].idx].remind_id

\* C15: a reschedule or delete command whose lookup finds no row in the
\* guild of the command raises nothing: no command is ever left by the
\* IndexError of query[0].
C15_MissingRowRaisesNothing ==
    \A f \in AllFlowIds :
        ~(flows[f].pc = "raised" /\ flows[f].result = "IndexError")

\* C16: an idx that has been given out and is no longer in the table (its
\* row was deleted: add stores every row it takes an idx for) is in the
\* table in no later state, whatever the task writes afterwards.
C16_DeletedStaysDeleted ==
    [][\A i \in RecordIds :
          (i < nextIdx /\ i \notin DOMAIN store) => i \notin DOMAIN store']_vars

\* C16 witness: the delete was committed while the running iteration held
\* the row and had not written its status; _remind has since sent the
\* reminder and saved REMINDED on its object, and the row is not in the table.
C16_Witness ==
    \E f \in FlowIds :
        /\ flows[f].kind = "delete"
        /\ flows[f].result = "done"
        /\ flows[f].mark = "snapshot"
        /\ flows[f].idx \notin DOMAIN store
        /\ att[flows[f].idx].n = 1
        /\ att[flows[f].idx].path = "sent"
        /\ item = flows[f].idx
        /\ loopPc = "info"

\* C17: a command that was confirmed on a row another command had deleted
\* in the meantime has told the user of the failure and goes on to delete
\* its message; it is not left by an exception.
C17_ConfirmOnDeletedRowIsReported ==
    \A f \in AllFlowIds :
        flows[f].mark = "gone" =>
            /\ flows[f].pc = "cleanup"
            /\ flows[f].sent = "error"

\* C18: a command that is past wait_for and about to delete its message has
\* sent the text of its outcome to the channel: the time-out, the storno,
\* or the done change.
C18_OutcomeIsReported ==
    \A f \in AllFlowIds :
        flows[f].pc = "cleanup" => flows[f].sent = flows[f].result

\* C19: a command whose message with the reactions is out leaves wait_for
\* and the change only towards await message.delete(): whatever the outcome,
\* the deletion of the message is attempted.
C19_MessageIsAlwaysRetracted ==
    [][\A f \in AllFlowIds :
          flows[f].pc \in {"wait", "log"} =>
              flows'[f].pc \in {"wait", "log", "cleanup"}]_vars

\* C20: in every step, a row that stays in the table keeps guild_id,
\* author_id, remind_id, permalink, message and origin_date; remind_date
\* changes only by the reschedule of a command confirmed for that row, and
\* then status stays; status changes only by _remind working on that row,
\* and then remind_date stays; and no step changes two rows.
C20_EachOperationItsOwnField ==
    [][/\ \A i \in DOMAIN store \cap DOMAIN store' :
             /\ store'[i].guild_id = store[i].guild_id
             /\ store'[i].author_id = store[i].author_id
             /\ store'[i].remind_id = store[i].remind_id
             /\ store'[i].permalink = store[i].permalink
             /\ store'[i].message = store[i].message
             /\ store'[i].origin_date = store[i].origin_date
             /\ store'[i].remind_date # store[i].remind_date =>
                    /\ store'[i].status = store[i].status
                    /\ \E f \in AllFlowIds :
                           /\ flows[f].pc = "log"
                           /\ flows[f].kind = "reschedule"
                           /\ flows[f].idx = i
             /\ store'[i].status # store[i].status =>
                    /\ store'[i].remind_date = store[i].remind_date
                    /\ item = i
                    /\ loopPc \in {"get_member", "send", "warn_blocked"}
       /\ \A i, j \in DOMAIN store \cap DOMAIN store' :
             i # j => (store'[i] = store[i] \/ store'[j] = store[j])]_vars

\* C20 witness: of two rows one has been rescheduled by a command and
\* delivered by the task, REMINDED with a remind_date that is not the one it
\* was queried with, and the other row is WAITING as add stored it.
C20_Witness ==
    \E f \in FlowIds, j \in DOMAIN store :
        /\ flows[f].kind = "reschedule"
        /\ flows[f].result = "done"
        /\ flows[f].idx \in DOMAIN store
        /\ flows[f].idx # j
        /\ store[flows[f].idx].status = REMINDED
        /\ att[flows[f].idx].path = "sent"
        /\ store[flows[f].idx].remind_date > (nextRun - LoopInterval) + HorizonDelta
        /\ store[j].status = WAITING
        /\ att[j].n = 0

\* C21: a row leaves the table only in the step in which a delete command,
\* confirmed by the reminded user of the row on the command's own message,
\* calls query.delete(); no step of the task, of add or of a reschedule
\* removes a row.
C21_OnlyConfirmedDeleteRemoves ==
    [][\A i \in DOMAIN store \ DOMAIN store' :
          \E f \in AllFlowIds :
              /\ flows[f].pc = "log"
              /\ flows[f].kind = "delete"
              /\ flows[f].idx = i
              /\ flows[f].by = store[i].remind_id
              /\ flows[f].on = f
              /\ flows'[f].pc = "cleanup"]_vars

\* C21 witness: one row has been removed by a confirmed delete, and another,
\* FAILED after its send raised or its user was not found, is still in the
\* table after a later iteration of the task has begun and ended.
C21_Witness ==
    \E f \in FlowIds, j \in DOMAIN store :
        /\ flows[f].kind = "delete"
        /\ flows[f].result = "done"
        /\ flows[f].idx \notin DOMAIN store
        /\ flows[f].by \in Reminded
        /\ store[j].status = FAILED
        /\ att[j].fin
        /\ att[j].later
        /\ loopPc = "sleep"

\* C22: in the step in which _remind calls send for a row, the remind_date
\* the table holds for that row does not lie beyond max_remind_time of the
\* iteration that sends it.
C22_NoSendBeyondHorizon ==
    [][(loopPc = "get_embed" /\ loopPc' = "send" /\ item \in DOMAIN store) =>
           store[item].remind_date <= (nextRun - LoopInterval) + HorizonDelta]_vars
=============================================================================
